---------------------------- MODULE Spec2Model ----------------------------
(***************************************************************************)
(* Dialogflow ES webhook with a per-session in-memory shopping cart.       *)
(*                                                                         *)
(* The repository holds two revisions of the same server: src/server.js    *)
(* and src/unnamed/part_000.  They share the cart store, recalc, ShowCart, *)
(* ClearCart, Checkout and the route; they differ in how AddToCart and     *)
(* RemoveFromCart read their parameters and in the alias table.  The       *)
(* variable impl fixes which revision is running.                          *)
(*                                                                         *)
(* JavaScript numbers are IEEE-754 doubles.  Money (price, subtotal, tax,  *)
(* total) is modelled as a double, with the rounding of every operation.   *)
(* Quantities are multiples of 1/2 far below 2^53, on which += and -= are  *)
(* exact, so a quantity is held as its number of halves (an integer).      *)
(***************************************************************************)
EXTENDS Integers, Sequences, FiniteSets, TLC

(***************************************************************************)
(* Natural numbers of any size: little-endian sequences of limbs below     *)
(* Base, without leading zero limbs (zero is the empty sequence).          *)
(***************************************************************************)
Base == 2^14

RECURSIVE BNorm(_)
BNorm(a) ==
    IF a = <<>> THEN <<>>
    ELSE IF a[Len(a)] = 0 THEN BNorm(SubSeq(a, 1, Len(a) - 1)) ELSE a

RECURSIVE BFromInt(_)
BFromInt(n) == IF n = 0 THEN <<>> ELSE <<n % Base>> \o BFromInt(n \div Base)

RECURSIVE BToInt(_)
BToInt(a) == IF a = <<>> THEN 0 ELSE a[1] + Base * BToInt(Tail(a))

RECURSIVE BAddC(_, _, _)
BAddC(a, b, c) ==
    IF a = <<>> /\ b = <<>> THEN (IF c = 0 THEN <<>> ELSE <<c>>)
    ELSE LET x == IF a = <<>> THEN 0 ELSE a[1]
             y == IF b = <<>> THEN 0 ELSE b[1]
             s == x + y + c
         IN  <<s % Base>> \o
             BAddC(IF a = <<>> THEN <<>> ELSE Tail(a),
                   IF b = <<>> THEN <<>> ELSE Tail(b), s \div Base)

BAdd(a, b) == BAddC(a, b, 0)

\* a * k for 0 <= k < 2^16
RECURSIVE BMulSmallC(_, _, _)
BMulSmallC(a, k, c) ==
    IF a = <<>> THEN BFromInt(c)
    ELSE LET p == a[1] * k + c
         IN  <<p % Base>> \o BMulSmallC(Tail(a), k, p \div Base)

BMulSmall(a, k) == BNorm(BMulSmallC(a, k, 0))

BShiftLimbs(a, n) == IF a = <<>> THEN <<>> ELSE [i \in 1..n |-> 0] \o a

RECURSIVE BMulFrom(_, _, _)
BMulFrom(a, b, i) ==
    IF i > Len(b) THEN <<>>
    ELSE BAdd(BShiftLimbs(BMulSmall(a, b[i]), i - 1), BMulFrom(a, b, i + 1))

BMul(a, b) == BMulFrom(a, b, 1)

\* floor(a / k) for 1 <= k < 2^16, most significant limb first
RECURSIVE BDivSmallR(_, _, _)
BDivSmallR(a, k, r) ==
    IF a = <<>> THEN <<>>
    ELSE LET cur == r * Base + a[Len(a)]
         IN  BDivSmallR(SubSeq(a, 1, Len(a) - 1), k, cur % k) \o <<cur \div k>>

BDivSmall(a, k) == BNorm(BDivSmallR(a, k, 0))

RECURSIVE BModSmallR(_, _, _)
BModSmallR(a, k, r) ==
    IF a = <<>> THEN r
    ELSE BModSmallR(SubSeq(a, 1, Len(a) - 1), k, (r * Base + a[Len(a)]) % k)

BModSmall(a, k) == BModSmallR(a, k, 0)

BShl(a, n) == BMulSmall(BShiftLimbs(a, n \div 14), 2^(n % 14))

BShr(a, n) ==
    LET d == n \div 14
    IN  IF d >= Len(a) THEN <<>>
        ELSE BDivSmall(SubSeq(a, d + 1, Len(a)), 2^(n % 14))

RECURSIVE IntBitLen(_)
IntBitLen(n) == IF n = 0 THEN 0 ELSE 1 + IntBitLen(n \div 2)

BBitLen(a) == IF a = <<>> THEN 0 ELSE 14 * (Len(a) - 1) + IntBitLen(a[Len(a)])

\* bit i of a, bit 0 the least significant
BBit(a, i) ==
    LET d == i \div 14
    IN  IF d >= Len(a) THEN 0 ELSE (a[d + 1] \div 2^(i % 14)) % 2

\* whether the n lowest bits of a are all zero
BLowZero(a, n) ==
    LET d == n \div 14
    IN  /\ \A i \in 1..d : i > Len(a) \/ a[i] = 0
        /\ d >= Len(a) \/ a[d + 1] % 2^(n % 14) = 0

RECURSIVE IntTrailingZeros(_)
IntTrailingZeros(n) == IF n % 2 = 1 THEN 0 ELSE 1 + IntTrailingZeros(n \div 2)

RECURSIVE BTrailingZeros(_)
BTrailingZeros(a) ==
    IF a[1] = 0 THEN 14 + BTrailingZeros(Tail(a)) ELSE IntTrailingZeros(a[1])

(***************************************************************************)
(* JavaScript Number values the money computations meet: k = "num" is the  *)
(* non-negative finite double m * 2^e, m odd (or zero with e = 0), so that *)
(* equal numbers are equal records; NaN; and undefined (a missing          *)
(* property).  Every finite value the server computes lies between 2^-10   *)
(* and 2^20: no overflow, no subnormal.                                    *)
(***************************************************************************)
Zero == [k |-> "num", m |-> <<>>, e |-> 0]
NaN == [k |-> "nan", m |-> <<>>, e |-> 0]
undefined == [k |-> "undefined", m |-> <<>>, e |-> 0]

Canon(m, e) ==
    IF m = <<>> THEN Zero
    ELSE LET t == BTrailingZeros(m)
         IN  [k |-> "num", m |-> BShr(m, t), e |-> e + t]

\* m * 2^e rounded to the nearest double, ties to even
RoundToDouble(m, e) ==
    LET len == BBitLen(m)
    IN  IF len <= 53 THEN Canon(m, e)
        ELSE LET s  == len - 53
                 q  == BShr(m, s)
                 up == /\ BBit(m, s - 1) = 1
                       /\ (~BLowZero(m, s - 1) \/ BBit(q, 0) = 1)
             IN  Canon(IF up THEN BAdd(q, <<1>>) ELSE q, e + s)

FAdd(a, b) ==
    IF a.k # "num" \/ b.k # "num" THEN NaN
    ELSE IF a.m = <<>> THEN b
    ELSE IF b.m = <<>> THEN a
    ELSE LET e == IF a.e < b.e THEN a.e ELSE b.e
         IN  RoundToDouble(BAdd(BShl(a.m, a.e - e), BShl(b.m, b.e - e)), e)

FMul(a, b) ==
    IF a.k # "num" \/ b.k # "num" THEN NaN
    ELSE RoundToDouble(BMul(a.m, b.m), a.e + b.e)

\* the double nearest to n / d (a decimal literal, or the parse of a decimal
\* string): n / d scaled by 2^70, floored, with a sticky bit for the rest
FromRatio(n, d) ==
    IF n = 0 THEN Zero
    ELSE LET num == BShl(BFromInt(n), 70)
             q   == BDivSmall(num, d)
             st  == IF BModSmall(num, d) = 0 THEN <<>> ELSE <<1>>
         IN  RoundToDouble(BAdd(BMulSmall(q, 2), st), 0 - 71)

\* floor(k * x + 1/2) for a double x and 1 <= k < 2^15
ScaledHalfUp(x, k) ==
    IF x.e >= 0 THEN BToInt(BShl(BMulSmall(x.m, k), x.e))
    ELSE BToInt(BShr(BAdd(BMulSmall(x.m, 2 * k), BShl(<<1>>, 0 - x.e)), 1 - x.e))


(***************************************************************************)
(* Strings the server transforms are sequences of characters; strings it   *)
(* only compares or echoes (intent names, display names) are atoms.        *)
(***************************************************************************)
UpperToLower ==
    ("A" :> "a") @@ ("B" :> "b") @@ ("C" :> "c") @@ ("D" :> "d") @@ ("E" :> "e") @@
    ("F" :> "f") @@ ("G" :> "g") @@ ("H" :> "h") @@ ("I" :> "i") @@ ("J" :> "j") @@
    ("K" :> "k") @@ ("L" :> "l") @@ ("M" :> "m") @@ ("N" :> "n") @@ ("O" :> "o") @@
    ("P" :> "p") @@ ("Q" :> "q") @@ ("R" :> "r") @@ ("S" :> "s") @@ ("T" :> "t") @@
    ("U" :> "u") @@ ("V" :> "v") @@ ("W" :> "w") @@ ("X" :> "x") @@ ("Y" :> "y") @@
    ("Z" :> "z")

toLowerCase(s) ==
    [i \in 1..Len(s) |-> IF s[i] \in DOMAIN UpperToLower THEN UpperToLower[s[i]] ELSE s[i]]

WhiteSpace == {" ", "\t", "\n"}

RECURSIVE trimStart(_)
trimStart(s) ==
    IF s # <<>> /\ s[1] \in WhiteSpace THEN trimStart(Tail(s)) ELSE s

RECURSIVE trimEnd(_)
trimEnd(s) ==
    IF s # <<>> /\ s[Len(s)] \in WhiteSpace THEN trimEnd(SubSeq(s, 1, Len(s) - 1)) ELSE s

trim(s) == trimEnd(trimStart(s))

DigitValue ==
    ("0" :> 0) @@ ("1" :> 1) @@ ("2" :> 2) @@ ("3" :> 3) @@ ("4" :> 4) @@
    ("5" :> 5) @@ ("6" :> 6) @@ ("7" :> 7) @@ ("8" :> 8) @@ ("9" :> 9)

RECURSIVE DigitsValue(_, _)
DigitsValue(s, acc) ==
    IF s = <<>> THEN acc ELSE DigitsValue(Tail(s), 10 * acc + DigitValue[s[1]])

(***************************************************************************)
(* Values of the request's parameter bag: absent (undefined or null), a    *)
(* string, or a number (h halves).  A quantity read from the bag is a      *)
(* JavaScript number: NaN or h halves.                                     *)
(***************************************************************************)
Absent == [t |-> "absent", s |-> <<>>, h |-> 0]
Str(s) == [t |-> "string", s |-> s, h |-> 0]
Num(h) == [t |-> "number", s |-> <<>>, h |-> h]

\* a ?? b
Coalesce(a, b) == IF a.t = "absent" THEN b ELSE a

\* Number(v) for a number or a string of decimal digits, blanks or anything else
ToNumber(v) ==
    IF v.t = "number" THEN [nan |-> FALSE, h |-> v.h]
    ELSE LET d == trim(v.s)
         IN  IF \A i \in 1..Len(d) : d[i] \in DOMAIN DigitValue
             THEN [nan |-> FALSE, h |-> 2 * DigitsValue(d, 0)]
             ELSE [nan |-> TRUE, h |-> 0]

\* a quantity of h halves as a double
QtyDouble(h) == Canon(BFromInt(h), 0 - 1)

(***************************************************************************)
(* Helpers                                                                 *)
(***************************************************************************)
dfText(kind, args) == [kind |-> kind, args |-> args]

NoArgs == [none |-> TRUE]

\* The session field is absent, a string (its parts around '/sessions/'), or
\* a value without a split method.
sessionIdFromReq(req) ==
    LET s == IF req.session.t = "absent" THEN <<"">> ELSE req.session.parts
    IN  IF req.session.t = "other" THEN [throws |-> TRUE, id |-> ""]
        ELSE [throws |-> FALSE,
              id |-> IF Len(s) >= 2 /\ s[2] # "" THEN s[2] ELSE "anon"]

(***************************************************************************)
(* In-memory data stores                                                   *)
(***************************************************************************)
S_pizza == <<"p", "i", "z", "z", "a">>
S_ramen == <<"r", "a", "m", "e", "n">>
S_veggie_bowl == <<"v", "e", "g", "g", "i", "e", " ", "b", "o", "w", "l">>
S_constructor == <<"c", "o", "n", "s", "t", "r", "u", "c", "t", "o", "r">>
S_proto == <<"_", "_", "p", "r", "o", "t", "o", "_", "_">>

menu ==
    (S_pizza :> [name |-> "Margherita Pizza", price |-> FromRatio(1099, 100)]) @@
    (S_ramen :> [name |-> "Spicy Ramen", price |-> FromRatio(1250, 100)]) @@
    (S_veggie_bowl :> [name |-> "Veggie Power Bowl", price |-> FromRatio(975, 100)])

\* menu[key]: an own property, a property inherited from Object.prototype
\* (after toLowerCase only these two names remain), or undefined
menuGet(key) ==
    IF key \in DOMAIN menu THEN [truthy |-> TRUE, name |-> menu[key].name, price |-> menu[key].price]
    ELSE IF key = S_constructor THEN [truthy |-> TRUE, name |-> "Object", price |-> undefined]
    ELSE IF key = S_proto THEN [truthy |-> TRUE, name |-> "undefined", price |-> undefined]
    ELSE [truthy |-> FALSE, name |-> "undefined", price |-> undefined]

EmptyCart == [items |-> <<>>, subtotal |-> Zero]

\* the store after getCart(sessionId)
getCart(store, sessionId) ==
    IF sessionId \in DOMAIN store THEN store ELSE (sessionId :> EmptyCart) @@ store

RECURSIVE SumLines(_, _)
SumLines(items, sum) ==
    IF items = <<>> THEN sum
    ELSE SumLines(Tail(items), FAdd(sum, FMul(items[1].price, QtyDouble(items[1].qty))))

\* a recalc that leaves the stored subtotal as it was
recalc_stale(cart) == cart

recalc(cart) == [cart EXCEPT !.subtotal = SumLines(cart.items, Zero)]

getItemParam(params) ==
    trim(toLowerCase(
        Coalesce(params.menu_items,
            Coalesce(params.menu_item, Coalesce(params.item, Str(<<>>)))).s))

getQtyParam(params, fallback) ==
    LET raw == Coalesce(params.number, Coalesce(params.qty, Num(fallback)))
        n   == ToNumber(raw)
    IN  IF ~n.nan /\ n.h > 0 THEN n.h ELSE fallback


(***************************************************************************)
(* Handlers.  A handler's run is the store it leaves, the reply it returns *)
(* (or the exception it throws) and the session id it resolved.            *)
(***************************************************************************)
NoSession == "(none)"

\* what dfText returns: { fulfillmentMessages: [{ text: { text: [String(text)] } }] }
Envelope(text) ==
    [type |-> "object", fulfillmentMessages |-> <<[text |-> [text |-> <<text>>]]>>]

\* a value that is a JavaScript string
StringValue(text) == [type |-> "string", value |-> text]

Returns(store, sid, reply) ==
    [store |-> store, sid |-> sid, throws |-> FALSE, reply |-> reply,
     response |-> Envelope(reply)]

\* a handler that returns a string instead of what dfText builds
ReturnsString(store, text) ==
    [store |-> store, sid |-> NoSession, throws |-> FALSE,
     reply |-> [kind |-> text, args |-> NoArgs], response |-> StringValue(text)]

Throws(store) ==
    [store |-> store, sid |-> NoSession, throws |-> TRUE,
     reply |-> dfText("(thrown)", NoArgs), response |-> StringValue("(thrown)")]

\* index of the first line of rawItem, 0 when there is none
RECURSIVE findIndex(_, _, _)
findIndex(items, rawItem, i) ==
    IF i > Len(items) THEN 0
    ELSE IF items[i].item = rawItem THEN i ELSE findIndex(items, rawItem, i + 1)

\* an add that pushes a line without looking for an existing one
addLine_alwaysPush(items, rawItem, qty, price) ==
    Append(items, [item |-> rawItem, qty |-> qty, price |-> price])

\* existing.qty += qty, or push a new line
addLine(items, rawItem, qty, price) ==
    LET idx == findIndex(items, rawItem, 1)
    IN  IF idx > 0 THEN [items EXCEPT ![idx].qty = @ + qty]
        ELSE Append(items, [item |-> rawItem, qty |-> qty, price |-> price])

splice(items, idx) == SubSeq(items, 1, idx - 1) \o SubSeq(items, idx + 1, Len(items))

\* a remove that subtracts the quantity whatever it is: a quantity that is not
\* positive leaves the line in place
removeLine_noSentinel(items, idx, qty) ==
    IF ~qty.nan /\ items[idx].qty - qty.h <= 0 THEN splice(items, idx)
    ELSE [items EXCEPT ![idx].qty = @ - (IF qty.nan THEN 0 ELSE qty.h)]

\* qty is a JavaScript number: NaN > 0 is false
removeLine(items, idx, qty) ==
    IF ~qty.nan /\ qty.h > 0
    THEN IF items[idx].qty - qty.h <= 0 THEN splice(items, idx)
         ELSE [items EXCEPT ![idx].qty = @ - qty.h]
    ELSE splice(items, idx)

\* the add shared by both revisions, once item and quantity are accepted
addToStore(store, sessionId, rawItem, qty) ==
    LET st   == getCart(store, sessionId)
        cart == recalc([st[sessionId] EXCEPT
                          !.items = addLine(@, rawItem, qty, menuGet(rawItem).price)])
    IN  Returns([st EXCEPT ![sessionId] = cart], sessionId,
                dfText("Added", [name |-> menuGet(rawItem).name, qty |-> qty,
                                 subtotal |-> cart.subtotal]))

\* server.js reads the item from params.item alone
itemParam_server(params) == trim(toLowerCase(Coalesce(params.item, Str(<<>>)).s))

\* the quantity RemoveFromCart reads: a JavaScript number, 0 when absent
removeQty_part000(params) ==
    ToNumber(Coalesce(params.number, Coalesce(params.qty, Num(0))))

removeQty_server(params) == ToNumber(Coalesce(params.qty, Num(0)))

AddToCart_part000(store, req) ==
    LET sid     == sessionIdFromReq(req)
        rawItem == getItemParam(req.params)
        qty     == getQtyParam(req.params, 2)
    IN  IF sid.throws THEN Throws(store)
        ELSE IF rawItem = <<>> THEN Returns(store, sid.id, dfText("WhichItemToAdd", NoArgs))
        ELSE IF ~menuGet(rawItem).truthy
             THEN Returns(store, sid.id, dfText("UnknownItem", [item |-> Str(rawItem)]))
        ELSE addToStore(store, sid.id, rawItem, qty)

AddToCart_server(store, req) ==
    LET sid     == sessionIdFromReq(req)
        rawItem == itemParam_server(req.params)
        qty     == ToNumber(Coalesce(req.params.qty, Num(2)))
    IN  IF sid.throws THEN Throws(store)
        ELSE IF rawItem = <<>> THEN Returns(store, sid.id, dfText("WhichItemToAdd", NoArgs))
        ELSE IF ~menuGet(rawItem).truthy
             THEN Returns(store, sid.id, dfText("UnknownItem", [item |-> req.params.item]))
        ELSE IF ~(~qty.nan /\ qty.h >= 2)
             THEN Returns(store, sid.id, dfText("InvalidQuantity", NoArgs))
        ELSE addToStore(store, sid.id, rawItem, qty.h)

\* a show that lists the lines last-first and stores a subtotal of 0
ShowCartRun_rewrites(store, req) ==
    LET sid == sessionIdFromReq(req)
        st  == getCart(store, sid.id)
    IN  IF sid.throws THEN Throws(store)
        ELSE IF st[sid.id].items = <<>> THEN Returns(st, sid.id, dfText("CartIsEmpty", NoArgs))
        ELSE LET items == st[sid.id].items
                 lines == [i \in 1..Len(items) |->
                             [name |-> menuGet(items[Len(items) + 1 - i].item).name,
                              qty |-> items[Len(items) + 1 - i].qty,
                              total |-> FMul(QtyDouble(items[Len(items) + 1 - i].qty),
                                             items[Len(items) + 1 - i].price)]]
             IN  Returns([st EXCEPT ![sid.id].subtotal = Zero], sid.id,
                         dfText("YourCart", [lines |-> lines, subtotal |-> st[sid.id].subtotal]))

ShowCartRun(store, req) ==
    LET sid == sessionIdFromReq(req)
        st  == getCart(store, sid.id)
    IN  IF sid.throws THEN Throws(store)
        ELSE IF st[sid.id].items = <<>> THEN Returns(st, sid.id, dfText("CartIsEmpty", NoArgs))
        ELSE LET items == st[sid.id].items
                 lines == [i \in 1..Len(items) |->
                             [name |-> menuGet(items[i].item).name, qty |-> items[i].qty,
                              total |-> FMul(QtyDouble(items[i].qty), items[i].price)]]
                 cart  == recalc(st[sid.id])
             IN  Returns([st EXCEPT ![sid.id] = cart], sid.id,
                         dfText("YourCart", [lines |-> lines, subtotal |-> cart.subtotal]))

\* a remove without the idx < 0 check: splice(-1, 1) takes the last line
removeFromStore_unchecked(store, sessionId, rawItem, echo, qty) ==
    LET st   == getCart(store, sessionId)
        idx  == findIndex(st[sessionId].items, rawItem, 1)
        at   == IF idx = 0 THEN Len(st[sessionId].items) ELSE idx
        cart == recalc([st[sessionId] EXCEPT
                          !.items = IF at = 0 THEN @
                                    ELSE IF idx = 0 THEN splice(@, at) ELSE removeLine(@, at, qty)])
    IN  Returns([st EXCEPT ![sessionId] = cart], sessionId,
                dfText("Updated", [subtotal |-> cart.subtotal]))

\* the remove shared by both revisions, once the item key and quantity are read
removeFromStore(store, sessionId, rawItem, echo, qty) ==
    LET st  == getCart(store, sessionId)
        idx == findIndex(st[sessionId].items, rawItem, 1)
    IN  IF idx = 0 THEN Returns(st, sessionId, dfText("NotInCart", [item |-> echo]))
        ELSE LET cart == recalc([st[sessionId] EXCEPT !.items = removeLine(@, idx, qty)])
             IN  Returns([st EXCEPT ![sessionId] = cart], sessionId,
                         dfText("Updated", [subtotal |-> cart.subtotal]))

RemoveFromCart_part000(store, req) ==
    LET sid     == sessionIdFromReq(req)
        rawItem == getItemParam(req.params)
        qty     == removeQty_part000(req.params)
    IN  IF sid.throws THEN Throws(store)
        ELSE IF rawItem = <<>> THEN Returns(store, sid.id, dfText("WhichItemToRemove", NoArgs))
        ELSE removeFromStore(store, sid.id, rawItem, Str(rawItem), qty)

RemoveFromCart_server(store, req) ==
    LET sid     == sessionIdFromReq(req)
        rawItem == itemParam_server(req.params)
        qty     == removeQty_server(req.params)
    IN  IF sid.throws THEN Throws(store)
        ELSE IF rawItem = <<>> THEN Returns(store, sid.id, dfText("WhichItemToRemove", NoArgs))
        ELSE removeFromStore(store, sid.id, rawItem, req.params.item, qty)

\* a reset that empties every cart of the store
resetCart_everySession(store, sessionId) ==
    [s \in DOMAIN store \cup {sessionId} |-> EmptyCart]

\* carts.set(sessionId, { items: [], subtotal: 0 })
resetCart(store, sessionId) ==
    [s \in DOMAIN store \cup {sessionId} |-> IF s = sessionId THEN EmptyCart ELSE store[s]]

\* a clear that deletes the session's entry instead of resetting it
ClearCartRun_deletes(store, req) ==
    LET sid == sessionIdFromReq(req)
    IN  IF sid.throws THEN Throws(store)
        ELSE Returns([s \in DOMAIN store \ {sid.id} |-> store[s]], sid.id,
                     dfText("CartCleared", NoArgs))

ClearCartRun(store, req) ==
    LET sid == sessionIdFromReq(req)
    IN  IF sid.throws THEN Throws(store)
        ELSE Returns(resetCart(store, sid.id), sid.id, dfText("CartCleared", NoArgs))

\* x.toFixed(2): the decimal string, as its number of hundredths
toFixed2(x) == IF x.k # "num" THEN [nan |-> TRUE, cents |-> 0]
               ELSE [nan |-> FALSE, cents |-> ScaledHalfUp(x, 100)]

\* +str for a string toFixed(2) made
parseFixed2(f) == IF f.nan THEN NaN ELSE FromRatio(f.cents, 100)

taxRate == FromRatio(5, 100)

checkoutTotals(subtotal) ==
    LET tax   == parseFixed2(toFixed2(FMul(subtotal, taxRate)))
        grand == parseFixed2(toFixed2(FAdd(subtotal, tax)))
    IN  [subtotal |-> subtotal, tax |-> tax, total |-> grand]

\* a checkout that does not reset the cart
CheckoutRun_keepsCart(store, req) ==
    LET sid == sessionIdFromReq(req)
        st  == getCart(store, sid.id)
    IN  IF sid.throws THEN Throws(store)
        ELSE IF st[sid.id].items = <<>> THEN Returns(st, sid.id, dfText("CartIsEmptyCheckout", NoArgs))
        ELSE Returns([st EXCEPT ![sid.id] = recalc(@)], sid.id,
                     dfText("OrderPlaced", checkoutTotals(recalc(st[sid.id]).subtotal)))

CheckoutRun(store, req) ==
    LET sid == sessionIdFromReq(req)
        st  == getCart(store, sid.id)
    IN  IF sid.throws THEN Throws(store)
        ELSE IF st[sid.id].items = <<>> THEN Returns(st, sid.id, dfText("CartIsEmptyCheckout", NoArgs))
        ELSE Returns(resetCart(st, sid.id), sid.id,
                     dfText("OrderPlaced", checkoutTotals(recalc(st[sid.id]).subtotal)))


(***************************************************************************)
(* Intent router                                                           *)
(***************************************************************************)
CanonicalHandlers ==
    ("Default Welcome Intent" :> "DefaultWelcomeIntent") @@
    ("GetStoreHours" :> "GetStoreHours") @@
    ("CheckOrderStatus" :> "CheckOrderStatus") @@
    ("AddToCart" :> "AddToCart") @@
    ("ShowCart" :> "ShowCart") @@
    ("RemoveFromCart" :> "RemoveFromCart") @@
    ("ClearCart" :> "ClearCart") @@
    ("Checkout" :> "Checkout") @@
    ("Default Fallback Intent" :> "DefaultFallbackIntent")

handlers_part000 ==
    ("Add to cart" :> "AddToCart") @@ ("Add Item" :> "AddToCart") @@
    ("Show cart" :> "ShowCart") @@ ("Cart total" :> "ShowCart") @@
    ("Remove from cart" :> "RemoveFromCart") @@ ("Clear cart" :> "ClearCart") @@
    ("Store Hours" :> "GetStoreHours") @@ ("Order Status" :> "CheckOrderStatus") @@
    CanonicalHandlers

handlers_server ==
    ("Add to cart" :> "AddToCart") @@ ("Show cart" :> "ShowCart") @@
    ("Remove from cart" :> "RemoveFromCart") @@ ("Clear cart" :> "ClearCart") @@
    ("Store Hours" :> "GetStoreHours") @@ ("Order Status" :> "CheckOrderStatus") @@
    CanonicalHandlers

Revisions == {"server.js", "part_000"}

handlers(rev) == IF rev = "server.js" THEN handlers_server ELSE handlers_part000

\* names every object inherits from Object.prototype
ObjectPrototypeKeys ==
    {"__proto__", "constructor", "toString", "toLocaleString", "valueOf",
     "hasOwnProperty", "isPrototypeOf", "propertyIsEnumerable",
     "__defineGetter__", "__defineSetter__", "__lookupGetter__", "__lookupSetter__"}

NoIntent == [t |-> "absent", name |-> ""]
Intent(name) == [t |-> "string", name |-> name]

\* the property key an intent value is turned into, and its text in a template
IntentKey(intent) == IF intent.t = "absent" THEN "undefined" ELSE intent.name

\* handlers[intent] || (() => dfText(`No handler for intent: ${intent}`))
handlerFor(rev, intent) ==
    LET key == IntentKey(intent)
    IN  IF key \in DOMAIN handlers(rev) THEN [kind |-> "own", fn |-> handlers(rev)[key]]
        ELSE IF key \in ObjectPrototypeKeys THEN [kind |-> "inherited", fn |-> key]
        ELSE [kind |-> "none", fn |-> "(no handler)"]

(***************************************************************************)
(* Requests.  traffic names the requests a run draws from; it never        *)
(* changes and only bounds the inputs.                                     *)
(***************************************************************************)
MaxQty == 2
MaxBulkQty == 6
MaxInFlight == 2

NoSessionField == [t |-> "absent", parts |-> <<>>]
SessionPath(parts) == [t |-> "string", parts |-> parts]
SessionNotAString == [t |-> "other", parts |-> <<>>]

SessionA == SessionPath(<<"projects/p/agent", "A">>)

EmptyBag ==
    [menu_items |-> Absent, menu_item |-> Absent, item |-> Absent,
     number |-> Absent, qty |-> Absent, order_id |-> Absent]

Bags(layout, items, numbers) ==
    { CASE layout = "preferred" -> [EmptyBag EXCEPT !.menu_items = i, !.number = n]
        [] layout = "alternate" -> [EmptyBag EXCEPT !.menu_item = i, !.qty = n]
        [] OTHER                -> [EmptyBag EXCEPT !.item = i, !.qty = n]
      : i \in items, n \in numbers }

CartIntents ==
    {Intent(n) : n \in {"AddToCart", "ShowCart", "RemoveFromCart", "ClearCart", "Checkout"}}

AllIntents ==
    {Intent(n) : n \in DOMAIN handlers_part000} \cup
    {Intent("OrderPizza"), NoIntent, Intent("__proto__"), Intent("toString")}

S_two == <<"t", "w", "o">>

Traffic ==
    ("sessions" :>
        [intents |-> CartIntents, sessions |-> {NoSessionField, SessionA},
         bags |-> Bags("legacy", {Str(S_pizza), Str(S_ramen)}, {Absent, Num(2)}),
         cap |-> 2 * MaxQty, inflight |-> 1]) @@
    ("concurrency" :>
        [intents |-> CartIntents, sessions |-> {SessionA},
         bags |-> Bags("legacy", {Str(S_pizza), Str(S_ramen)}, {Absent, Num(2)}),
         cap |-> 2 * MaxQty, inflight |-> MaxInFlight]) @@
    ("items" :>
        [intents |-> CartIntents, sessions |-> {SessionA},
         bags |->
            LET items == {Str(S_pizza), Str(<<" ", "P", "i", "z", "z", "a", " ">>),
                          Str(S_constructor), Str(<<"s", "u", "s", "h", "i">>),
                          Str(<<>>), Str(<<" ">>), Absent}
            IN  Bags("preferred", items, {Absent}) \cup Bags("legacy", items, {Absent, Num(2)})
                \cup Bags("alternate", items, {Absent})
                \cup {[EmptyBag EXCEPT !.menu_items = Str(S_pizza), !.item = Str(S_constructor)],
                      [EmptyBag EXCEPT !.menu_items = Str(<<>>), !.item = Str(S_pizza)],
                      [EmptyBag EXCEPT !.menu_item = Str(S_constructor), !.item = Str(S_pizza)]},
         cap |-> 2 * MaxQty, inflight |-> 1]) @@
    ("quantities" :>
        [intents |-> CartIntents, sessions |-> {SessionA},
         bags |->
            LET numbers == {Absent, Num(0), Num(0 - 2), Num(1), Num(2), Num(3),
                            Str(<<>>), Str(S_two), Str(<<"2">>)}
            IN  Bags("preferred", {Str(S_pizza)}, numbers)
                \cup Bags("legacy", {Str(S_pizza)}, numbers)
                \cup {[EmptyBag EXCEPT !.item = Str(S_pizza), !.number = Num(2), !.qty = Num(4)],
                      [EmptyBag EXCEPT !.item = Str(S_pizza), !.number = Str(<<>>), !.qty = Num(2)]},
         cap |-> 2 * MaxQty, inflight |-> 1]) @@
    ("routing" :>
        [intents |-> AllIntents,
         sessions |-> {NoSessionField, SessionA, SessionPath(<<"">>),
                       SessionPath(<<"projects/p/agent">>),
                       SessionPath(<<"projects/p/agent", "">>),
                       SessionPath(<<"projects/p/agent", "A", "x">>), SessionNotAString},
         bags |-> Bags("legacy", {Str(S_pizza)}, {Absent}),
         cap |-> 2 * MaxQty, inflight |-> 1]) @@
    ("bulk" :>
        [intents |-> CartIntents, sessions |-> {SessionA},
         bags |-> Bags("legacy", {Str(S_ramen), Str(S_veggie_bowl)}, {Absent, Num(4), Num(12)}),
         cap |-> 2 * MaxBulkQty, inflight |-> 1])

(***************************************************************************)
(* State                                                                   *)
(***************************************************************************)
VARIABLES
    impl,       \* the revision that runs: "server.js" or "part_000"
    traffic,    \* the requests this run draws from
    carts,      \* the Map: session id -> [items, subtotal]
    awaiting,   \* per session id, the requests whose handler has returned and
                \* whose route is suspended at `await`, the reply not yet sent
    last        \* the request handled last, the session id its handler resolved,
                \* the reply and the body res.json is given

vars == <<impl, traffic, carts, awaiting, last>>

SessionKeys == {"A", "anon", NoSession}

InFlight == awaiting["A"] + awaiting["anon"] + awaiting[NoSession]

Init ==
    /\ impl \in Revisions
    /\ traffic \in DOMAIN Traffic
    /\ carts = <<>>
    /\ awaiting = [k \in SessionKeys |-> 0]
    /\ last = [op |-> "(start)", sid |-> NoSession, reply |-> dfText("(none)", NoArgs),
               body |-> StringValue("(none)"),
               req |-> [intent |-> NoIntent, session |-> NoSessionField, params |-> EmptyBag]]

WithinCap(store) ==
    \A s \in DOMAIN store : \A i \in 1..Len(store[s].items) :
        store[s].items[i].qty <= Traffic[traffic].cap

Requests(fn, sessions, bags) ==
    { [intent |-> i, session |-> s, params |-> b] :
        i \in {x \in Traffic[traffic].intents :
                 handlerFor(impl, x) = [kind |-> "own", fn |-> fn]},
        s \in sessions, b \in bags }

\* app.post('/webhook'): the handler runs to its end (no handler body awaits),
\* the route suspends at `await` and res.json sends the reply later; an
\* exception is caught and answered with the error reply.
Route(req, op, run) ==
    /\ InFlight < Traffic[traffic].inflight
    /\ WithinCap(run.store)
    /\ carts' = run.store
    /\ awaiting' = [awaiting EXCEPT ![run.sid] = @ + 1]
    /\ last' = [op |-> op, sid |-> run.sid, req |-> req,
                reply |-> IF run.throws THEN dfText("WebhookError", NoArgs) ELSE run.reply,
                body |-> IF run.throws THEN Envelope(dfText("WebhookError", NoArgs))
                         ELSE run.response]
    /\ UNCHANGED <<impl, traffic>>

AnySession == {NoSessionField}

DefaultWelcomeIntent ==
    \E req \in Requests("DefaultWelcomeIntent", AnySession, {EmptyBag}) :
        Route(req, "DefaultWelcomeIntent", Returns(carts, NoSession, dfText("Welcome", NoArgs)))

GetStoreHours ==
    \E req \in Requests("GetStoreHours", AnySession, {EmptyBag}) :
        Route(req, "GetStoreHours", Returns(carts, NoSession, dfText("StoreHours", NoArgs)))

CheckOrderStatus ==
    \E req \in Requests("CheckOrderStatus", AnySession,
                        {EmptyBag, [EmptyBag EXCEPT !.order_id = Str(<<"4", "2">>)]}) :
        Route(req, "CheckOrderStatus",
              Returns(carts, NoSession,
                      dfText("OrderStatus",
                             [id |-> Coalesce(req.params.order_id, Str(<<"N", "/", "A">>))])))

AddToCart ==
    \E req \in Requests("AddToCart", Traffic[traffic].sessions, Traffic[traffic].bags) :
        Route(req, "AddToCart",
              IF impl = "server.js" THEN AddToCart_server(carts, req)
              ELSE AddToCart_part000(carts, req))

ShowCart ==
    \E req \in Requests("ShowCart", Traffic[traffic].sessions, {EmptyBag}) :
        Route(req, "ShowCart", ShowCartRun(carts, req))

RemoveFromCart ==
    \E req \in Requests("RemoveFromCart", Traffic[traffic].sessions, Traffic[traffic].bags) :
        Route(req, "RemoveFromCart",
              IF impl = "server.js" THEN RemoveFromCart_server(carts, req)
              ELSE RemoveFromCart_part000(carts, req))

ClearCart ==
    \E req \in Requests("ClearCart", Traffic[traffic].sessions, {EmptyBag}) :
        Route(req, "ClearCart", ClearCartRun(carts, req))

Checkout ==
    \E req \in Requests("Checkout", Traffic[traffic].sessions, {EmptyBag}) :
        Route(req, "Checkout", CheckoutRun(carts, req))

DefaultFallbackIntent ==
    \E req \in Requests("DefaultFallbackIntent", AnySession, {EmptyBag}) :
        Route(req, "DefaultFallbackIntent", Returns(carts, NoSession, dfText("Fallback", NoArgs)))

\* no own and no inherited property: the inline arrow function
NoHandler ==
    \E i \in Traffic[traffic].intents :
        /\ handlerFor(impl, i).kind = "none"
        /\ Route([intent |-> i, session |-> NoSessionField, params |-> EmptyBag],
                 "(no handler)",
                 Returns(carts, NoSession, dfText("NoHandler", [intent |-> IntentKey(i)])))

\* handlers[intent] is a member of Object.prototype: toString called without
\* a receiver answers "[object Undefined]", which res.json sends as it is;
\* the others throw, or are not functions, or return what res.json cannot
\* serialise
InheritedProperty ==
    \E i \in Traffic[traffic].intents :
        /\ handlerFor(impl, i).kind = "inherited"
        /\ Route([intent |-> i, session |-> NoSessionField, params |-> EmptyBag],
                 "(inherited)",
                 IF handlerFor(impl, i).fn = "toString"
                 THEN ReturnsString(carts, "[object Undefined]")
                 ELSE Throws(carts))

\* res.json(response) of a suspended route
Respond ==
    \E k \in SessionKeys :
        /\ awaiting[k] > 0
        /\ awaiting' = [awaiting EXCEPT ![k] = @ - 1]
        /\ UNCHANGED <<impl, traffic, carts, last>>

Next ==
    \/ DefaultWelcomeIntent
    \/ GetStoreHours
    \/ CheckOrderStatus
    \/ AddToCart
    \/ ShowCart
    \/ RemoveFromCart
    \/ ClearCart
    \/ Checkout
    \/ DefaultFallbackIntent
    \/ NoHandler
    \/ InheritedProperty
    \/ Respond

Spec == Init /\ [][Next]_vars


(***************************************************************************)
(* Properties                                                              *)
(***************************************************************************)
\* a step in which a handler ran (Respond lowers InFlight, a handler raises it)
Handled == InFlight' = InFlight + 1

ItemsOf(store, s) == IF s \in DOMAIN store THEN store[s].items ELSE <<>>

LineKeys(items) == {items[i].item : i \in 1..Len(items)}

UniqueKeys(items) ==
    \A i, j \in 1..Len(items) : i # j => items[i].item # items[j].item

Recomputed(cart) == cart.subtotal = SumLines(cart.items, Zero)

WithoutLine(items, idx) ==
    [j \in 1..(Len(items) - 1) |-> IF j < idx THEN items[j] ELSE items[j + 1]]

\* the item key and the remove quantity the running revision reads
ItemRead(rev, params) ==
    IF rev = "server.js" THEN itemParam_server(params) ELSE getItemParam(params)

RemoveQtyRead(rev, params) ==
    IF rev = "server.js" THEN removeQty_server(params) ELSE removeQty_part000(params)

CartOps == {"AddToCart", "ShowCart", "RemoveFromCart", "ClearCart", "Checkout"}

\* C1: after every request the stored subtotal of every cart is a number equal
\* to the sum over its lines of qty * price, and is 0 when the cart has no lines.
SubtotalIsSumOfLines ==
    \A s \in DOMAIN carts :
        /\ carts[s].subtotal.k = "num"
        /\ \A i \in 1..Len(carts[s].items) : carts[s].items[i].price.k = "num"
        /\ Recomputed(carts[s])
        /\ carts[s].items = <<>> => carts[s].subtotal = Zero

\* C2: no cart ever holds two lines with the same item key; an AddToCart that
\* adds q of an item already in the cart raises that line's quantity by q and
\* changes nothing else, and one for an item not in the cart appends one line
\* of quantity q.
AddMergesLines ==
    [][ /\ \A s \in DOMAIN carts' : UniqueKeys(carts'[s].items)
        /\ (Handled /\ last'.op = "AddToCart" /\ last'.reply.kind = "Added") =>
              LET old  == ItemsOf(carts, last'.sid)
                  new  == carts'[last'.sid].items
                  q    == last'.reply.args.qty
                  item == ItemRead(impl, last'.req.params)
              IN  IF item \in LineKeys(old)
                  THEN \E i \in 1..Len(old) :
                          /\ old[i].item = item
                          /\ new = [old EXCEPT ![i].qty = old[i].qty + q]
                  ELSE new = Append(old, [item |-> item, qty |-> q,
                                          price |-> new[Len(new)].price])
      ]_vars

AddMergedWitness ==
    /\ last.op = "AddToCart" /\ last.reply.kind = "Added"
    /\ Len(carts[last.sid].items) = 1
    /\ carts[last.sid].items[1].qty = 2 * last.reply.args.qty

\* C3: a handler run for a request whose session resolves to A leaves the
\* cart (lines and subtotal) stored under every other session id unchanged.
SessionIsolation ==
    [][ Handled =>
          \A s \in DOMAIN carts :
              (sessionIdFromReq(last'.req).throws \/ s # sessionIdFromReq(last'.req).id)
                  => s \in DOMAIN carts' /\ carts'[s] = carts[s] ]_vars

SessionIsolationWitness ==
    /\ DOMAIN carts = {"A", "anon"}
    /\ carts["A"].items # <<>> /\ carts["anon"].items # <<>>
    /\ last.op \in {"ClearCart", "Checkout", "RemoveFromCart"}
    /\ last.reply.kind \in {"CartCleared", "OrderPlaced", "Updated"}

\* C4: with several requests of one session in flight, every handler acts on
\* the cart in one step: a step changes the cart store only by one whole
\* handler run, on that request's session alone; every cart a later request
\* can see has its subtotal recomputed; and an add made while another request
\* of the session is in flight starts from the stored quantity (no lost update).
PerSessionAtomicity ==
    [][ /\ \A s \in DOMAIN carts' : Recomputed(carts'[s])
        /\ carts' # carts =>
              /\ Handled
              /\ last'.op \in CartOps
              /\ \A s \in DOMAIN carts : s # last'.sid => carts'[s] = carts[s]
        /\ (Handled /\ last'.reply.kind = "Added" /\ awaiting[last'.sid] > 0) =>
              \E i \in 1..Len(carts'[last'.sid].items) :
                  LET line == carts'[last'.sid].items[i]
                      old  == ItemsOf(carts, last'.sid)
                      was  == {old[j].qty : j \in {k \in 1..Len(old) : old[k].item = line.item}}
                  IN  /\ line.item = ItemRead(impl, last'.req.params)
                      /\ line.qty = last'.reply.args.qty
                                    + (IF was = {} THEN 0 ELSE CHOOSE w \in was : TRUE)
      ]_vars

ConcurrentAddWitness ==
    /\ awaiting["A"] >= 2
    /\ last.op = "AddToCart" /\ last.reply.kind = "Added" /\ last.sid = "A"
    /\ \E i \in 1..Len(carts["A"].items) : carts["A"].items[i].qty > last.reply.args.qty

\* C5: a Checkout of a non-empty cart places the order and leaves the session
\* with no lines and subtotal 0; a Checkout of an empty cart reports the empty
\* cart and places no order; the ShowCart or Checkout of the same session
\* handled next after a placed order reports the empty cart.
CheckoutConsumes ==
    [][ Handled =>
          /\ (last'.op = "Checkout" /\ last'.sid # NoSession) =>
                /\ carts'[last'.sid] = EmptyCart
                /\ last'.reply.kind =
                      IF ItemsOf(carts, last'.sid) = <<>> THEN "CartIsEmptyCheckout"
                      ELSE "OrderPlaced"
          /\ (last.reply.kind = "OrderPlaced" /\ last'.sid = last.sid) =>
                /\ last'.op = "ShowCart" => last'.reply.kind = "CartIsEmpty"
                /\ last'.op = "Checkout" => last'.reply.kind = "CartIsEmptyCheckout"
      ]_vars

CheckoutConsumedWitness ==
    /\ last.op = "Checkout" /\ last.reply.kind = "OrderPlaced"
    /\ carts[last.sid] = EmptyCart

\* C6: an AddToCart whose normalized item key is not a catalog key replies
\* with the unknown-item message and leaves the store unchanged, so every line
\* of every cart references a catalog entry.
UnknownItemRejected ==
    [][ /\ (/\ Handled /\ last'.op = "AddToCart" /\ last'.sid # NoSession
            /\ ItemRead(impl, last'.req.params) # <<>>
            /\ ItemRead(impl, last'.req.params) \notin DOMAIN menu)
           => (last'.reply.kind = "UnknownItem" /\ carts' = carts)
        /\ \A s \in DOMAIN carts' : LineKeys(carts'[s].items) \subseteq DOMAIN menu
      ]_vars

\* C7: a RemoveFromCart for an item in the cart whose quantity is absent, 0 or
\* otherwise not greater than 0 removes that line whatever its quantity,
\* leaves the other lines as they were and recomputes the subtotal.
RemoveAllSentinel ==
    [][ LET sid  == last'.sid
            old  == ItemsOf(carts, sid)
            item == ItemRead(impl, last'.req.params)
            qty  == RemoveQtyRead(impl, last'.req.params)
        IN  (/\ Handled /\ last'.op = "RemoveFromCart" /\ sid # NoSession
             /\ item \in LineKeys(old)
             /\ (qty.nan \/ qty.h <= 0))
            => \E i \in 1..Len(old) :
                  /\ old[i].item = item
                  /\ carts'[sid].items = WithoutLine(old, i)
                  /\ Recomputed(carts'[sid])
                  /\ last'.reply = dfText("Updated", [subtotal |-> carts'[sid].subtotal])
      ]_vars

RemoveAllWitness ==
    /\ last.op = "RemoveFromCart" /\ last.reply.kind = "Updated"
    /\ LET qty == RemoveQtyRead(impl, last.req.params) IN qty.nan \/ qty.h <= 0
    /\ Len(carts[last.sid].items) = 1
    /\ carts[last.sid].subtotal # Zero

\* C8: a request whose intent name is not a key of the handler table (aliases
\* included), or is absent, gets the fallback reply naming that intent, and
\* the cart store is unchanged.
UnrecognizedIntentFallsBack ==
    [][ (Handled /\ IntentKey(last'.req.intent) \notin DOMAIN handlers(impl)) =>
            /\ last'.reply = dfText("NoHandler", [intent |-> IntentKey(last'.req.intent)])
            /\ carts' = carts ]_vars

\* the totals C9 claims for a subtotal: tax and total rounded to hundredths,
\* halves away from zero, in exact arithmetic on the subtotal's value
ClaimedTotals(subtotal) ==
    LET taxCents == ScaledHalfUp(subtotal, 5)
    IN  [subtotal |-> subtotal, tax |-> FromRatio(taxCents, 100),
         total |-> FromRatio(ScaledHalfUp(subtotal, 100) + taxCents, 100)]

\* C9: a successful Checkout reports the subtotal the cart had before the
\* reset, tax = subtotal * 0.05 and total = subtotal + tax, each rounded to two
\* decimals with halves away from zero (stated here for carts of whole
\* quantities of catalog items).
CheckoutArithmetic ==
    [][ LET old == ItemsOf(carts, last'.sid)
        IN  (/\ Handled /\ last'.reply.kind = "OrderPlaced"
             /\ \A i \in 1..Len(old) : old[i].item \in DOMAIN menu /\ old[i].qty % 2 = 0)
            => last'.reply.args = ClaimedTotals(carts[last'.sid].subtotal) ]_vars

\* C10: every line of every cart has a whole quantity of at least 1.
QuantitiesWholeAndPositive ==
    \A s \in DOMAIN carts : \A i \in 1..Len(carts[s].items) :
        carts[s].items[i].qty % 2 = 0 /\ carts[s].items[i].qty >= 2

\* C11: every request is answered with the envelope holding exactly one
\* message with exactly one text segment, the generic error text when the
\* handler threw and the handler's own text otherwise.
ReplyChannelNeverFails ==
    last.op # "(start)" =>
        /\ last.body.type = "object"
        /\ DOMAIN last.body = {"type", "fulfillmentMessages"}
        /\ Len(last.body.fulfillmentMessages) = 1
        /\ Len(last.body.fulfillmentMessages[1].text.text) = 1
        /\ last.body.fulfillmentMessages[1].text.text[1] = last.reply

\* C12: a cart handler never fails on the session field and never keys the
\* store by the empty string: a session that is absent, not a string, without
\* the '/sessions/' separator or with nothing after it resolves to "anon".
SessionResolvesToSentinel ==
    [][ (Handled /\ last'.op \in CartOps) =>
            LET session == last'.req.session
            IN  /\ last'.reply.kind # "WebhookError"
                /\ last'.sid \notin {"", NoSession}
                /\ "" \notin DOMAIN carts'
                /\ (\/ session.t # "string"
                    \/ Len(session.parts) < 2
                    \/ session.parts[2] = "") => last'.sid = "anon"
      ]_vars

\* the quantity C13 claims an add uses, in halves: the first present of
\* number and qty as a number, and one unit when that is absent, not a number
\* or not positive
ClaimedAddQty(params) ==
    LET raw == Coalesce(params.number, params.qty)
        n   == ToNumber(raw)
    IN  IF raw.t = "absent" \/ n.nan \/ n.h <= 0 THEN 2 ELSE n.h

\* C13: an AddToCart of a catalog item is never rejected for its quantity: it
\* adds the first present of number and qty, or exactly one unit when that is
\* absent, not a number, zero or negative.
AddQuantityNormalized ==
    [][ LET item == ItemRead(impl, last'.req.params)
            was  == {l.qty : l \in {ItemsOf(carts, last'.sid)[i] :
                                      i \in {j \in 1..Len(ItemsOf(carts, last'.sid)) :
                                               ItemsOf(carts, last'.sid)[j].item = item}}}
            old  == IF was = {} THEN 0 ELSE CHOOSE w \in was : TRUE
        IN  (/\ Handled /\ last'.op = "AddToCart" /\ last'.sid # NoSession
             /\ item \in DOMAIN menu)
            => /\ last'.reply.kind = "Added"
               /\ last'.reply.args.qty = ClaimedAddQty(last'.req.params)
               /\ \E i \in 1..Len(carts'[last'.sid].items) :
                     /\ carts'[last'.sid].items[i].item = item
                     /\ carts'[last'.sid].items[i].qty = old + ClaimedAddQty(last'.req.params)
      ]_vars

\* the item key C14 claims: the first present of menu_items, 'menu item' and
\* item, lowercased and trimmed, empty when none is present
ClaimedItemKey(params) ==
    LET order   == <<params.menu_items, params.menu_item, params.item>>
        present == {i \in 1..3 : order[i].t # "absent"}
    IN  IF present = {} THEN <<>>
        ELSE trim(toLowerCase(order[CHOOSE i \in present : \A j \in present : i <= j].s))

QtyOf(items, key) ==
    LET at == {i \in 1..Len(items) : items[i].item = key}
    IN  IF at = {} THEN 0 ELSE items[CHOOSE i \in at : TRUE].qty

\* C14: AddToCart and RemoveFromCart act on the first present of menu_items,
\* 'menu item' and item, lowercased and trimmed; when that key is empty they
\* reply with the missing-item prompt and leave the store as it was.
ItemKeyFirstPresentWins ==
    [][ LET key == ClaimedItemKey(last'.req.params)
            old == ItemsOf(carts, last'.sid)
            new == ItemsOf(carts', last'.sid)
            k   == last'.reply.kind
        IN  (Handled /\ last'.op \in {"AddToCart", "RemoveFromCart"} /\ last'.sid # NoSession)
            => IF key = <<>>
               THEN /\ k = (IF last'.op = "AddToCart" THEN "WhichItemToAdd"
                            ELSE "WhichItemToRemove")
                    /\ carts' = carts
               ELSE /\ k \notin {"WhichItemToAdd", "WhichItemToRemove"}
                    /\ k = "Added" => QtyOf(new, key) > QtyOf(old, key)
                    /\ k = "UnknownItem" => key \notin DOMAIN menu
                    /\ k = "NotInCart" => key \notin LineKeys(old)
                    /\ k = "Updated" => QtyOf(new, key) < QtyOf(old, key)
      ]_vars

\* the subtotal drops by price * quantity (the quantity in halves of a unit):
\* all three are numbers, compared exactly in two-hundredths
SubtotalDrops(before, after, price, halves) ==
    /\ before.k = "num" /\ after.k = "num" /\ price.k = "num"
    /\ ScaledHalfUp(before, 200) - ScaledHalfUp(after, 200)
           = ScaledHalfUp(price, 100) * halves

\* C15: a RemoveFromCart of q > 0 of an item in the cart lowers that line's
\* quantity by q, keeping the line in its place when something is left and
\* removing it otherwise; no other line changes and the subtotal drops by
\* exactly price * min(q, old).
PartialRemove ==
    [][ LET sid == last'.sid
            old == ItemsOf(carts, sid)
            key == ItemRead(impl, last'.req.params)
            q   == RemoveQtyRead(impl, last'.req.params)
        IN  (/\ Handled /\ last'.op = "RemoveFromCart" /\ sid # NoSession
             /\ key \in LineKeys(old) /\ ~q.nan /\ q.h > 0)
            => \E i \in 1..Len(old) :
                  /\ old[i].item = key
                  /\ carts'[sid].items =
                        IF old[i].qty - q.h > 0 THEN [old EXCEPT ![i].qty = old[i].qty - q.h]
                        ELSE WithoutLine(old, i)
                  /\ SubtotalDrops(carts[sid].subtotal, carts'[sid].subtotal, old[i].price,
                                   IF q.h < old[i].qty THEN q.h ELSE old[i].qty)
      ]_vars

\* C16: a RemoveFromCart for an item key that has no line in the session's
\* cart, a session never seen before included, replies that the item is not
\* in the cart and leaves every cart as it was (a cart it creates is empty).
ItemNotInCart ==
    [][ LET key == ItemRead(impl, last'.req.params)
        IN  (/\ Handled /\ last'.op = "RemoveFromCart" /\ last'.sid # NoSession
             /\ key # <<>> /\ key \notin LineKeys(ItemsOf(carts, last'.sid)))
            => /\ last'.reply.kind = "NotInCart"
               /\ last'.reply.args.item \in {Str(key), last'.req.params.item}
               /\ \A s \in DOMAIN carts : s \in DOMAIN carts' /\ carts'[s] = carts[s]
               /\ \A s \in DOMAIN carts' \ DOMAIN carts : carts'[s] = EmptyCart
      ]_vars

ItemNotInCartWitness ==
    /\ last.op = "RemoveFromCart" /\ last.reply.kind = "NotInCart"
    /\ carts[last.sid].items # <<>>
    /\ carts[last.sid].subtotal = FromRatio(1250, 100)

ShowCartPureRead ==
    [][ LET sid == last'.sid
            old == ItemsOf(carts, sid)
        IN  (Handled /\ last'.op = "ShowCart" /\ sid # NoSession)
            => /\ \A s \in DOMAIN carts : s \in DOMAIN carts' /\ carts'[s] = carts[s]
               /\ \A s \in DOMAIN carts' \ DOMAIN carts : s = sid /\ carts'[s] = EmptyCart
               /\ last'.reply.kind = (IF old = <<>> THEN "CartIsEmpty" ELSE "YourCart")
               /\ old # <<>> =>
                     /\ Len(last'.reply.args.lines) = Len(old)
                     /\ \A i \in 1..Len(old) :
                           /\ last'.reply.args.lines[i].qty = old[i].qty
                           /\ last'.reply.args.lines[i].total
                                  = FMul(QtyDouble(old[i].qty), old[i].price)
                           /\ old[i].item \in DOMAIN menu =>
                                 last'.reply.args.lines[i].name = menu[old[i].item].name
                     /\ last'.reply.args.subtotal = carts[sid].subtotal
      ]_vars

ShowCartWitness ==
    /\ last.op = "ShowCart" /\ last.reply.kind = "YourCart"
    /\ Len(last.reply.args.lines) = 2
    /\ last.reply.args.lines[1].name = "Spicy Ramen"
    /\ last.reply.args.lines[2].name = "Margherita Pizza"
    /\ Len(carts[last.sid].items) = 2

\* C19: an AddToCart that adds q changes one line only: a line the item
\* already has keeps its place and its price and gains q; otherwise one line
\* is appended at the end with the catalog's unit price of the item; every
\* other line keeps its item key, quantity, price and place.
AddChangesOnlyItsLine ==
    [][ LET old == ItemsOf(carts, last'.sid)
            new == ItemsOf(carts', last'.sid)
            key == ItemRead(impl, last'.req.params)
            q   == last'.reply.args.qty
        IN  (Handled /\ last'.op = "AddToCart" /\ last'.reply.kind = "Added")
            => IF key \in LineKeys(old)
               THEN /\ Len(new) = Len(old)
                    /\ \A i \in 1..Len(old) :
                          new[i] = IF old[i].item = key
                                   THEN [item |-> key, qty |-> old[i].qty + q,
                                         price |-> old[i].price]
                                   ELSE old[i]
               ELSE /\ Len(new) = Len(old) + 1
                    /\ \A i \in 1..Len(old) : new[i] = old[i]
                    /\ key \in DOMAIN menu
                    /\ new[Len(new)] = [item |-> key, qty |-> q, price |-> menu[key].price]
      ]_vars

\* the aliases C20 lists and the canonical intent name each stands for
ClaimedAliases ==
    ("Add to cart" :> "AddToCart") @@ ("Add Item" :> "AddToCart") @@
    ("Show cart" :> "ShowCart") @@ ("Cart total" :> "ShowCart") @@
    ("Remove from cart" :> "RemoveFromCart") @@ ("Clear cart" :> "ClearCart") @@
    ("Store Hours" :> "GetStoreHours") @@ ("Order Status" :> "CheckOrderStatus")

\* what the request gets, and the store it leaves, under a canonical name
UnderCanonicalName(rev, name, store, req) ==
    CASE name = "AddToCart" ->
            IF rev = "server.js" THEN AddToCart_server(store, req)
            ELSE AddToCart_part000(store, req)
      [] name = "ShowCart" -> ShowCartRun(store, req)
      [] name = "RemoveFromCart" ->
            IF rev = "server.js" THEN RemoveFromCart_server(store, req)
            ELSE RemoveFromCart_part000(store, req)
      [] name = "ClearCart" -> ClearCartRun(store, req)
      [] name = "GetStoreHours" -> Returns(store, NoSession, dfText("StoreHours", NoArgs))
      [] name = "CheckOrderStatus" ->
            Returns(store, NoSession,
                    dfText("OrderStatus",
                           [id |-> Coalesce(req.params.order_id, Str(<<"N", "/", "A">>))]))

\* C20: a request under one of the eight alias names gets the reply, and
\* leaves the store, that the same request gets and leaves under the
\* canonical name the alias stands for.
AliasEquivalence ==
    [][ (/\ Handled /\ last'.req.intent.t = "string"
         /\ last'.req.intent.name \in DOMAIN ClaimedAliases)
        => LET run == UnderCanonicalName(impl, ClaimedAliases[last'.req.intent.name],
                                         carts, last'.req)
           IN  /\ carts' = run.store
               /\ last'.reply = (IF run.throws THEN dfText("WebhookError", NoArgs)
                                 ELSE run.reply)
      ]_vars

=============================================================================
